---- MODULE Spec2Model ----
(***************************************************************************)
(* Trezor extension of the Ontology TypeScript SDK.                        *)
(*                                                                         *)
(*   trezorProxy.ts  the gateway: the shared device handle gDevice, the    *)
(*                   device wait (getDevice raced against a 5000 ms        *)
(*                   timeout), getPublicKey, computesSignature,            *)
(*                   isTrezorSupported and the transaction translator.     *)
(*   trezorKey.ts    the key adapter: create, createExisting and the       *)
(*                   methods assigned onto the key object.                 *)
(*                                                                         *)
(* JavaScript runs one task at a time: everything an async function does   *)
(* between two awaits that are settled by promise jobs only is one atomic  *)
(* step.  A step ends where the function waits for a timer, for the        *)
(* transport, or for the device.  Connect and disconnect notifications     *)
(* are tasks of their own and interleave with these steps.                 *)
(***************************************************************************)
EXTENDS Integers, Sequences, FiniteSets, TLC

VARIABLES
    gDevice,      \* trezorProxy.ts: let gDevice
    connected,    \* transport: the device handles that are plugged in
    inv,          \* the pending / last gateway invocation of every slot
    keys,         \* the key adapters built by createExisting
    ret,          \* the last adapter method call and what it returned/threw
    cin,          \* translator input  (a transaction)
    cout          \* translator output (the firmware transaction)

vars == <<gDevice, connected, inv, keys, ret, cin, cout>>

(***************************************************************************)
(* Bounds and value sets                                                   *)
(***************************************************************************)
\* how many gateway invocations may be pending (or leave a polling loop
\* behind) at the same time
MaxInv == 2

Slots == 1..MaxInv

\* JavaScript null and undefined
Null == "null"
Undefined == "undefined"

\* device handles delivered by the transport's connect notifications
Dev == {"devA", "devB"}

\* BIP44 address indices used by callers
Indices == {0, 1}

\* promise-timeout's rejection
TimeoutError == "TimeoutError"

\* the Error thrown inside computesSignature's session callback
UnsupportedSignable == "Unsupported Signable implementation. Only Transaction is supported."

\* rejections that come from the transport (device-side failure, lost device)
DeviceDisconnected == "Device disconnected"
TransportErrors == {"Failure"}

(***************************************************************************)
(* The transaction translator (trezorProxy.ts, lines 115-171)              *)
(*                                                                         *)
(* Scalar JavaScript values are tokens (strings); an absent field reads    *)
(* as Undefined.  An object-valued field that is null is NullObject.       *)
(***************************************************************************)
NullObject == [null |-> TRUE]

\* JavaScript `v != null`: neither null nor undefined
NotNull(v) == v \notin {Null, Undefined}

\* payload objects of the SDK: InvokeCode has code only, DeployCode has all
PayloadNames == {Undefined, Null, "", "name"}
Payloads ==
    [code : {"00c66b", "51c1"}, needStorage : {Undefined, "true"},
     name : PayloadNames, version : {Undefined, "1.0"},
     author : {Undefined, "author"}, email : {Undefined},
     description : {Null, "desc"}]

InvokePayload ==
    [code |-> "00c66b", needStorage |-> Undefined, name |-> Undefined,
     version |-> Undefined, author |-> Undefined, email |-> Undefined,
     description |-> Null]

\* a mutant of convertPayload: tests the name for truthiness, so a deploy
\* payload with an empty name is sent as invoke code
convertPayloadTruthy(payload) ==
    IF NotNull(payload.name) /\ payload.name /= ""
    THEN [type |-> 2, code |-> payload.code, needStorage |-> payload.needStorage,
          name |-> payload.name, version |-> payload.version,
          author |-> payload.author, email |-> payload.email,
          description |-> payload.description]
    ELSE [type |-> 1, code |-> payload.code]

convertPayload(payload) ==
    IF NotNull(payload.name)
    THEN \* deployCode
         [type |-> 2, code |-> payload.code, needStorage |-> payload.needStorage,
          name |-> payload.name, version |-> payload.version,
          author |-> payload.author, email |-> payload.email,
          description |-> payload.description]
    ELSE \* invokeCode
         [type |-> 1, code |-> payload.code]

convertAttribute(attribute) ==
    [usage |-> attribute.usage, data |-> attribute.data]

\* utils.StringReader(nonce).readUint32(): four bytes, least significant first
readUint32(bytes) ==
    bytes[1] + 256 * bytes[2] + 65536 * bytes[3] + 16777216 * bytes[4]

\* Long.fromString of a decimal string, given as its digits
RECURSIVE LongFromString(_)
LongFromString(digits) ==
    IF digits = <<>> THEN 0
    ELSE 10 * LongFromString(SubSeq(digits, 1, Len(digits) - 1))
         + digits[Len(digits)]

\* Address.toBase58(): an encoding of the address, not the address itself
toBase58(address) == <<"base58", address>>

convertToTrezorTransaction(tx) ==
    LET transaction ==
            [version |-> tx.version,
             type |-> tx.type,
             nonce |-> readUint32(tx.nonce),
             gasPrice |-> LongFromString(tx.gasPrice),
             gasLimit |-> LongFromString(tx.gasLimit),
             payer |-> toBase58(tx.payer),
             payload |-> convertPayload(tx.payload),
             txAttributes |->      \* tx.txAttributes.map(convertAttribute)
                 [k \in 1..Len(tx.txAttributes) |->
                     convertAttribute(tx.txAttributes[k])]]
    IN  IF tx.isTransfer
        THEN [transferInfo |->
                 [amount |-> LongFromString(tx.amount),
                  asset |-> IF tx.tokenType = "ONT" THEN 1 ELSE 2,
                  fromAddress |-> toBase58(tx.from),
                  toAddress |-> toBase58(tx.to)]] @@ transaction
        ELSE transaction

isTransaction(signable) ==
    /\ NotNull(signable.version)
    /\ NotNull(signable.type)
    /\ signable.payload /= NullObject

\* BIP44(index): purpose, coin type, account (all hardened), change, index
BIP44(index) == <<"0x8000002C", "0x80000378", "0x80000000", 0, index>>

\* a transaction as the SDK builds it (OntAssetTxBuilder.makeTransferTx)
TransferTx(payload, token) ==
    [version |-> "0", type |-> "209", nonce |-> <<1, 2, 0, 0>>,
     gasPrice |-> <<5, 0, 0>>, gasLimit |-> <<3, 0, 0, 0, 0>>,
     payer |-> "AGn8", payload |-> payload,
     txAttributes |-> << [usage |-> "u", data |-> "d", extra |-> "x"] >>,
     isTransfer |-> TRUE, amount |-> <<1, 0, 0>>, tokenType |-> token,
     from |-> "AGn8", to |-> "AcyL"]

PlainTx(payload) ==
    [version |-> "0", type |-> "208", nonce |-> <<0, 0, 1, 0>>,
     gasPrice |-> <<0>>, gasLimit |-> <<2, 0>>,
     payer |-> "AGn8", payload |-> payload, txAttributes |-> <<>>,
     isTransfer |-> FALSE, amount |-> <<>>, tokenType |-> Undefined,
     from |-> Undefined, to |-> Undefined]

\* the objects callers hand to computesSignature, by name: a well-formed
\* transaction and objects lacking version, type or payload
ValidTx == TransferTx(InvokePayload, "ONT")
Object(name) ==
    CASE name = "tx" -> ValidTx
      [] name = "noVersion" -> [ValidTx EXCEPT !.version = Undefined]
      [] name = "noType" -> [ValidTx EXCEPT !.type = Null]
      [] name = "noPayload" -> [ValidTx EXCEPT !.payload = NullObject]
Signables == {"tx", "noPayload"}

(***************************************************************************)
(* The device (external): what the firmware answers                        *)
(***************************************************************************)
\* the uncompressed public key <<"04", X, Y>> the device derives for an
\* index: different for every index and every device
DevicePublicKey(device, index) ==
    <<"04", (IF device = "devA" THEN 10 ELSE 20) + index,
            (IF device = "devA" THEN 7 ELSE 4) + 3 * index>>

\* OntologySignedTx.signature: hex characters, the first two being the marker
SigResponses == { <<"0", "1", "a", "b">>, <<"0", "1", "0", "1">> }

(***************************************************************************)
(* Gateway invocations (trezorProxy.ts, lines 40-98 and 173-186)           *)
(*                                                                         *)
(* pc     idle       no invocation in the slot, or the last one settled    *)
(*        sleeping   getDevice found gDevice null and sleeps 5000 ms; the  *)
(*                   timeout timer of the same 5000 ms is armed            *)
(*        session    device.waitForSessionAndRun was called; the callback  *)
(*                   has not run yet                                       *)
(*        typedCall  session.typedCall is in flight                        *)
(* loop   getDevice's while loop is still polling (it survives a timeout)  *)
(***************************************************************************)
NoOut == [kind |-> "none", value |-> Null]
Ok(v) == [kind |-> "ok", value |-> v]
Err(e) == [kind |-> "error", value |-> e]

Direct == [kind |-> "direct"]

NoMessage == [type |-> "none"]

IdleSlot ==
    [op |-> "none", index |-> 0, signable |-> "tx", ctx |-> Direct,
     pc |-> "idle", device |-> Null, loop |-> FALSE,
     exclusive |-> FALSE, msg |-> NoMessage,
     waits |-> 0, sessions |-> 0, calls |-> 0, raw |-> Null, out |-> NoOut]

Invocation(op, index, signable, ctx) ==
    [IdleSlot EXCEPT !.op = op, !.index = index, !.signable = signable,
                     !.ctx = ctx]

\* a slot can take a new invocation when nothing of the old one is running
Free(i) == inv[i].pc = "idle" /\ ~inv[i].loop
FirstFree(i) == Free(i) /\ \A j \in Slots : j < i => ~Free(j)

\* a mutant of getPublicKeyOptions: the session is asked for without
\* onlyOneActivity
getPublicKeyOptionsNone == [onlyOneActivity |-> FALSE]

\* the options handed to waitForSessionAndRun
getPublicKeyOptions == [onlyOneActivity |-> TRUE]
computesSignatureOptions == [onlyOneActivity |-> TRUE]

(***************************************************************************)
(* The key adapter (trezorKey.ts)                                          *)
(***************************************************************************)
ECDSAwithSHA256 == "SHA256withECDSA"
SM2withSM3 == "SM3withSM2"
Schemes == {Undefined, ECDSAwithSHA256, SM2withSM3}

SyncSigningError == "Synchronious signing is not supported with Trezor."
SchemaError == "Signature schema does not match key type."
RawStringError == "Signing only message is not supported. Use Signable object instead."

KeyIds == {1}
NoKey == [type |-> "none"]

\* messages handed to sign and signAsync: a plain string or a Signable object
Messages ==
    {[typeof |-> "string", value |-> "68656c6c6f"]}
        \cup {[typeof |-> "object", value |-> n] : n \in Signables}

PublicKeyIds == {Undefined, "1"}

\* compressed public keys handed to createExisting by callers that reload a key
StoredPKeys == { <<"02", 99>> }

PublicKey(pKey, algorithm, parameters) ==
    [key |-> pKey, algorithm |-> algorithm, parameters |-> parameters]

\* createExisting(index, pKey), lines 53-58
createExisting(index, pKey) ==
    [type |-> "TREZOR", index |-> index,
     publicKey |-> PublicKey(pKey, "ECDSA", "P-256")]

\* trezorKey.isSchemaSupported, lines 107-109
isSchemaSupported(schema) == schema = ECDSAwithSHA256

\* trezorKey.sign, lines 63-65
sign(key, msg, schema, publicKeyId) == Err(SyncSigningError)

\* a mutant of signAsyncChecks: tests the message before the schema
signAsyncChecksSwapped(msg, schema) ==
    LET used == IF schema = Undefined THEN ECDSAwithSHA256 ELSE schema
    IN  IF msg.typeof = "string" THEN Err(RawStringError)
        ELSE IF ~isSchemaSupported(used) THEN Err(SchemaError)
        ELSE Ok(used)

\* trezorKey.signAsync, lines 78-88: the checks made before the device is
\* asked; Ok carries the schema the signature will be tagged with
signAsyncChecks(msg, schema) ==
    LET used == IF schema = Undefined THEN ECDSAwithSHA256 ELSE schema
    IN  IF ~isSchemaSupported(used) THEN Err(SchemaError)
        ELSE IF msg.typeof = "string" THEN Err(RawStringError)
        ELSE Ok(used)

\* trezorKey.getPublicKey (getPublicKey2), lines 100-102
getPublicKey2(key) == key.publicKey

\* trezorKey.serializeJson, lines 114-125
serializeJson(key) ==
    [algorithm |-> key.publicKey.algorithm,
     external |-> [index |-> key.index, pKey |-> key.publicKey.key,
                   type |-> "TREZOR"],
     parameters |-> [curve |-> key.publicKey.parameters],
     key |-> Null]

\* a mutant of decrypt: builds a fresh key object without the cached key
decryptRebuilds(key) == [key EXCEPT !.publicKey = PublicKey(<<"02", 0>>, "ECDSA", "P-256")]

\* trezorKey.decrypt and trezorKey.encrypt, lines 130-139: return this
decrypt(key) == key
encrypt(key) == key

\* a mutant of substr2: strips one character only
substr1(signed) == SubSeq(signed, 2, Len(signed))

\* trezorKey.ts signAsync, line 92: signed.substr(2)
substr2(signed) == SubSeq(signed, 3, Len(signed))

Signature(schema, value, publicKeyId) ==
    [algorithm |-> schema, value |-> value, publicKeyId |-> publicKeyId]

\* elliptic: keyFromPublic(uncompressed).getPublic(true, 'hex')
compress(uncompressed) ==
    <<IF uncompressed[3] % 2 = 0 THEN "02" ELSE "03", uncompressed[2]>>

\* what the caller of the gateway function makes of its outcome:
\* signAsync (line 92) wraps the signature, create (lines 45-49) compresses
\* the key; a rejection passes through unchanged
CallerOutcome(rec, out) ==
    IF out.kind /= "ok" THEN out
    ELSE CASE rec.ctx.kind = "signAsync" ->
                Ok(Signature(rec.ctx.schema, substr2(out.value),
                             rec.ctx.publicKeyId))
           [] rec.ctx.kind = "create" -> Ok(compress(out.value))
           [] OTHER -> out

\* the invocation settles: its promise resolves or rejects with out
Settle(rec, out) ==
    [rec EXCEPT !.pc = "idle", !.out = CallerOutcome(rec, out),
                !.raw = IF out.kind = "ok" THEN out.value ELSE Null,
                !.index = 0, !.signable = "tx", !.device = Null,
                !.exclusive = FALSE, !.msg = NoMessage,
                !.waits = 0, !.sessions = 0, !.calls = 0]

\* device.waitForSessionAndRun(callback, options)
waitForSessionAndRun(rec, device, options) ==
    [rec EXCEPT !.pc = "session", !.device = device,
                !.exclusive = options.onlyOneActivity,
                !.sessions = @ + 1]

\* the code after `await getDeviceWithTimout()` has yielded a device
AfterDevice(rec, device) ==
    CASE rec.op = "isTrezorSupported" -> Settle(rec, Ok("true"))
      [] rec.op = "getPublicKey" ->
            waitForSessionAndRun(rec, device, getPublicKeyOptions)
      [] rec.op = "computesSignature" ->
            waitForSessionAndRun(rec, device, computesSignatureOptions)

\* a mutant of AfterTimeout: the rejection of the timeout is swallowed and
\* the invocation goes on waiting for the polling loop
AfterTimeoutKeepsPolling(rec) == rec

\* the code after getDeviceWithTimout() has rejected: isTrezorSupported
\* catches and answers false, the other two reject with the same error
AfterTimeout(rec) ==
    IF rec.op = "isTrezorSupported"
    THEN Settle(rec, Ok("false"))
    ELSE Settle(rec, Err(TimeoutError))

\* getDevice(): the loop test, `while (gDevice === null)`
MustSleep == gDevice = Null

\* a mutant of StartWait: takes the first device the transport lists
\* instead of the shared handle
StartWaitFirstListed(rec) ==
    LET waiting == [rec EXCEPT !.waits = @ + 1]
    IN  IF MustSleep
        THEN [waiting EXCEPT !.pc = "sleeping", !.loop = TRUE]
        ELSE AfterDevice(waiting,
                         IF "devA" \in connected THEN "devA" ELSE "devB")

\* getDeviceWithTimout() at the moment of the call, and what follows it
\* without any task in between
StartWait(rec) ==
    LET waiting == [rec EXCEPT !.waits = @ + 1]
    IN  IF MustSleep
        THEN [waiting EXCEPT !.pc = "sleeping", !.loop = TRUE]
        ELSE AfterDevice(waiting, gDevice)

\* session.typedCall(type, resType, message)
typedCall(rec, type, resType, message) ==
    [rec EXCEPT !.pc = "typedCall", !.calls = @ + 1,
                !.msg = [type |-> type, resType |-> resType,
                         message |-> message]]

\* the callback getPublicKey hands to waitForSessionAndRun (lines 58-66)
getPublicKeyCallback(rec) ==
    typedCall(rec, "OntologyGetPublicKey", "OntologyPublicKey",
              [address_n |-> BIP44(rec.index), show_display |-> FALSE])

\* the callback computesSignature hands to waitForSessionAndRun (lines 79-95)
computesSignatureCallback(rec) ==
    IF isTransaction(Object(rec.signable))
    THEN typedCall(rec, "OntologySignTx", "OntologySignedTx",
                   [address_n |-> BIP44(rec.index),
                    transaction |->
                        convertToTrezorTransaction(Object(rec.signable))])
    ELSE Settle(rec, Err(UnsupportedSignable))

\* a mutant of Rejected: a typed call that failed is tried once more in a
\* new session on the same device
RejectedRetries(rec, error) ==
    IF rec.pc = "typedCall" /\ error \in TransportErrors
    THEN waitForSessionAndRun(rec, rec.device, [onlyOneActivity |-> TRUE])
    ELSE Settle(rec, Err(error))

\* `await device.waitForSessionAndRun(...)` rejected: the error propagates
Rejected(rec, error) == Settle(rec, Err(error))

\* `await device.waitForSessionAndRun(...)` resolved: lines 68 and 97
Resolved(rec, result) ==
    IF rec.op = "getPublicKey"
    THEN Settle(rec, Ok(result.message.public_key))
    ELSE Settle(rec, Ok(result.message.signature))

\* a mutant of onDisconnect: clears the handle only when the device that
\* went away is the one it holds
onDisconnectOwn(dev) == IF dev = gDevice THEN Null ELSE gDevice

\* the listeners of lines 33 and 34
onConnect(dev) == dev
onDisconnect(dev) == Null

(***************************************************************************)
(* Actions: device notifications                                           *)
(***************************************************************************)
Connect(d) ==
    /\ d \notin connected
    /\ connected' = connected \cup {d}
    /\ gDevice' = onConnect(d)
    /\ UNCHANGED <<inv, keys, ret, cin, cout>>

\* the transport rejects what was pending on the device that went away
Disconnect(d) ==
    /\ d \in connected
    /\ connected' = connected \ {d}
    /\ gDevice' = onDisconnect(d)
    /\ inv' = [i \in Slots |->
                 IF inv[i].pc \in {"session", "typedCall"} /\ inv[i].device = d
                 THEN Rejected(inv[i], DeviceDisconnected)
                 ELSE inv[i]]
    /\ UNCHANGED <<keys, ret, cin, cout>>

(***************************************************************************)
(* Actions: calls of the gateway's exported functions                      *)
(***************************************************************************)
CallIsTrezorSupported(i) ==
    /\ FirstFree(i)
    /\ inv' = [inv EXCEPT ![i] =
                 StartWait(Invocation("isTrezorSupported", 0, "tx", Direct))]
    /\ UNCHANGED <<gDevice, connected, keys, ret, cin, cout>>

CallGetPublicKey(i, index) ==
    /\ FirstFree(i)
    /\ inv' = [inv EXCEPT ![i] =
                 StartWait(Invocation("getPublicKey", index, "tx", Direct))]
    /\ UNCHANGED <<gDevice, connected, keys, ret, cin, cout>>

CallComputesSignature(i, index, signable) ==
    /\ FirstFree(i)
    /\ inv' = [inv EXCEPT ![i] =
                 StartWait(Invocation("computesSignature", index, signable,
                                      Direct))]
    /\ UNCHANGED <<gDevice, connected, keys, ret, cin, cout>>

(***************************************************************************)
(* Actions: the two 5000 ms timers of a sleeping invocation                *)
(*                                                                         *)
(* sleep(5000) and timeout(..., 5000) are set in the same task and expire  *)
(* together.  Where the runtime runs promise jobs between two timer        *)
(* callbacks, getDevice resumes before the timeout callback runs; where it *)
(* runs both callbacks first, the rejection is queued ahead of getDevice's *)
(* result.  Both orders are behaviours of the code.                        *)
(***************************************************************************)
SleepWakesFirst(i) ==
    /\ inv[i].pc = "sleeping"
    /\ inv' = [inv EXCEPT ![i] =
                 IF MustSleep
                 THEN AfterTimeout(inv[i])          \* sleeps again; timer fires
                 ELSE AfterDevice([inv[i] EXCEPT !.loop = FALSE], gDevice)]
    /\ UNCHANGED <<gDevice, connected, keys, ret, cin, cout>>

TimeoutFiresFirst(i) ==
    /\ inv[i].pc = "sleeping"
    /\ inv' = [inv EXCEPT ![i] =
                 [AfterTimeout(inv[i]) EXCEPT !.loop = MustSleep]]
    /\ UNCHANGED <<gDevice, connected, keys, ret, cin, cout>>

\* the loop a timed-out invocation left behind polls on, every 5000 ms,
\* until it sees a device; nobody consumes what it returns
PollLoopWakes(i) ==
    /\ inv[i].pc = "idle"
    /\ inv[i].loop
    /\ inv' = [inv EXCEPT ![i].loop = MustSleep]
    /\ UNCHANGED <<gDevice, connected, keys, ret, cin, cout>>

(***************************************************************************)
(* Actions: the transport (trezor.js, external)                            *)
(*                                                                         *)
(* It runs the callback of a waitForSessionAndRun once it holds the        *)
(* device's session; a request made with onlyOneActivity is never run      *)
(* while another activity is running on the device, nor another beside it. *)
(***************************************************************************)
Running(j, d) == inv[j].pc = "typedCall" /\ inv[j].device = d

RunCallback(i) ==
    /\ inv[i].pc = "session"
    /\ inv[i].device \in connected
    /\ \A j \in Slots \ {i} :
          Running(j, inv[i].device) => ~(inv[i].exclusive \/ inv[j].exclusive)
    /\ inv' = [inv EXCEPT ![i] =
                 IF inv[i].op = "getPublicKey"
                 THEN getPublicKeyCallback(inv[i])
                 ELSE computesSignatureCallback(inv[i])]
    /\ UNCHANGED <<gDevice, connected, keys, ret, cin, cout>>

Responses(rec) ==
    IF rec.op = "getPublicKey"
    THEN { [message |-> [public_key |-> DevicePublicKey(rec.device, rec.index)]] }
    ELSE { [message |-> [signature |-> s]] : s \in SigResponses }

\* trezorKey.create, line 49: the key is built once getPublicKey resolved
KeysAfter(settled) ==
    IF settled.ctx.kind = "create" /\ settled.out.kind = "ok"
    THEN [keys EXCEPT ![settled.ctx.key] =
             createExisting(settled.ctx.index, settled.out.value)]
    ELSE keys

TypedCallResolves(i, result) ==
    /\ inv[i].pc = "typedCall"
    /\ inv[i].device \in connected
    /\ result \in Responses(inv[i])
    /\ inv' = [inv EXCEPT ![i] = Resolved(inv[i], result)]
    /\ keys' = KeysAfter(inv'[i])
    /\ UNCHANGED <<gDevice, connected, ret, cin, cout>>

TransportRejects(i, error) ==
    /\ inv[i].pc \in {"session", "typedCall"}
    /\ inv' = [inv EXCEPT ![i] = Rejected(inv[i], error)]
    /\ UNCHANGED <<gDevice, connected, keys, ret, cin, cout>>

(***************************************************************************)
(* Specification of the gateway under direct calls                         *)
(***************************************************************************)
NoTx == PlainTx(InvokePayload)
NoRet == [op |-> "none"]
NoConv == [kind |-> "none"]

Init ==
    /\ gDevice = Null
    /\ connected = {}
    /\ inv = [i \in Slots |-> IdleSlot]
    /\ keys = [k \in KeyIds |-> NoKey]
    /\ ret = NoRet
    /\ cin = NoTx
    /\ cout = NoConv

Environment ==
    \/ \E d \in Dev : Connect(d)
    \/ \E d \in Dev : Disconnect(d)
    \/ \E i \in Slots : SleepWakesFirst(i)
    \/ \E i \in Slots : TimeoutFiresFirst(i)
    \/ \E i \in Slots : PollLoopWakes(i)
    \/ \E i \in Slots : RunCallback(i)
    \/ \E i \in Slots : \E r \in Responses(inv[i]) : TypedCallResolves(i, r)
    \/ \E i \in Slots : \E e \in TransportErrors : TransportRejects(i, e)

Next ==
    \/ Environment
    \/ \E i \in Slots : CallIsTrezorSupported(i)
    \/ \E i \in Slots : \E x \in Indices : CallGetPublicKey(i, x)
    \/ \E i \in Slots : \E x \in Indices : \E s \in Signables :
          CallComputesSignature(i, x, s)

Spec == Init /\ [][Next]_vars

(***************************************************************************)
(* Actions: calls of the key adapter (trezorKey.ts)                        *)
(*                                                                         *)
(* The caller awaits create and signAsync before it calls the adapter      *)
(* again, as the repository's tests do.  A new asynchronous call forgets   *)
(* the outcomes of the earlier ones.                                       *)
(***************************************************************************)
Quiet == \A j \in Slots : inv[j].pc = "idle"

Forgotten ==
    [j \in Slots |-> [IdleSlot EXCEPT !.loop = inv[j].loop]]

FirstUnused(k) ==
    /\ k \in KeyIds
    /\ keys[k] = NoKey
    /\ \A h \in KeyIds : h < k => keys[h] /= NoKey

Returned(op, k, arg, outcome) ==
    [op |-> op, key |-> k, arg |-> arg, out |-> outcome]

CreateExisting(k, index, pKey) ==
    /\ Quiet
    /\ FirstUnused(k)
    /\ keys' = [keys EXCEPT ![k] = createExisting(index, pKey)]
    /\ ret' = Returned("createExisting", k, <<>>, Ok("key"))
    /\ UNCHANGED <<gDevice, connected, inv, cin, cout>>

\* create(index), line 43: await getPublicKey(index)
Create(i, k, index) ==
    /\ Quiet
    /\ FirstFree(i)
    /\ FirstUnused(k)
    /\ inv' = [Forgotten EXCEPT ![i] =
                 StartWait(Invocation("getPublicKey", index, "tx",
                     [kind |-> "create", key |-> k, index |-> index]))]
    /\ ret' = Returned("create", k, <<>>, Ok("promise"))
    /\ UNCHANGED <<gDevice, connected, keys, cin, cout>>

Sign(k, msg, schema, publicKeyId) ==
    /\ Quiet
    /\ keys[k] /= NoKey
    /\ ret' = Returned("sign", k, <<>>, sign(keys[k], msg, schema, publicKeyId))
    /\ UNCHANGED <<gDevice, connected, inv, keys, cin, cout>>

\* signAsync, lines 77-93; line 90: await computesSignature(this.index, msg)
SignAsync(i, k, msg, schema, publicKeyId) ==
    /\ Quiet
    /\ keys[k] /= NoKey
    /\ LET checked == signAsyncChecks(msg, schema)
       IN  IF checked.kind = "error"
           THEN /\ i = 1
                /\ ret' = Returned("signAsync", k,
                                   <<msg.typeof, schema, msg.value>>, checked)
                /\ inv' = inv
           ELSE /\ FirstFree(i)
                /\ ret' = Returned("signAsync", k,
                                   <<msg.typeof, schema, msg.value>>,
                                   Ok("promise"))
                /\ inv' = [Forgotten EXCEPT ![i] =
                             StartWait(Invocation("computesSignature",
                                 keys[k].index, msg.value,
                                 [kind |-> "signAsync", key |-> k,
                                  index |-> keys[k].index,
                                  schema |-> checked.value,
                                  publicKeyId |-> publicKeyId]))]
    /\ UNCHANGED <<gDevice, connected, keys, cin, cout>>

GetPublicKey2(k) ==
    /\ Quiet
    /\ keys[k] /= NoKey
    /\ ret' = Returned("getPublicKey", k, <<>>, Ok(getPublicKey2(keys[k])))
    /\ UNCHANGED <<gDevice, connected, inv, keys, cin, cout>>

IsSchemaSupported(k, schema) ==
    /\ Quiet
    /\ keys[k] /= NoKey
    /\ ret' = Returned("isSchemaSupported", k, <<schema>>,
                       Ok(isSchemaSupported(schema)))
    /\ UNCHANGED <<gDevice, connected, inv, keys, cin, cout>>

SerializeJson(k) ==
    /\ Quiet
    /\ keys[k] /= NoKey
    /\ ret' = Returned("serializeJson", k, <<>>, Ok(serializeJson(keys[k])))
    /\ UNCHANGED <<gDevice, connected, inv, keys, cin, cout>>

\* encrypt and decrypt hand back the object they were called on
Encrypt(k) ==
    /\ Quiet
    /\ keys[k] /= NoKey
    /\ keys' = [keys EXCEPT ![k] = encrypt(keys[k])]
    /\ ret' = Returned("encrypt", k, <<>>, Ok(keys'[k]))
    /\ UNCHANGED <<gDevice, connected, inv, cin, cout>>

Decrypt(k) ==
    /\ Quiet
    /\ keys[k] /= NoKey
    /\ keys' = [keys EXCEPT ![k] = decrypt(keys[k])]
    /\ ret' = Returned("decrypt", k, <<>>, Ok(keys'[k]))
    /\ UNCHANGED <<gDevice, connected, inv, cin, cout>>

(***************************************************************************)
(* Specification of the key adapter over the gateway                       *)
(***************************************************************************)
NextKey ==
    \/ Environment
    \/ \E k \in KeyIds : \E x \in Indices : \E p \in StoredPKeys :
          CreateExisting(k, x, p)
    \/ \E i \in Slots : \E k \in KeyIds : \E x \in Indices : Create(i, k, x)
    \/ \E k \in KeyIds : \E m \in Messages : \E s \in Schemes :
          \E p \in PublicKeyIds : Sign(k, m, s, p)
    \/ \E i \in Slots : \E k \in KeyIds : \E m \in Messages :
          \E s \in Schemes : \E p \in PublicKeyIds : SignAsync(i, k, m, s, p)
    \/ \E k \in KeyIds : GetPublicKey2(k)
    \/ \E k \in KeyIds : \E s \in Schemes \ {Undefined} : IsSchemaSupported(k, s)
    \/ \E k \in KeyIds : SerializeJson(k)
    \/ \E k \in KeyIds : Encrypt(k)
    \/ \E k \in KeyIds : Decrypt(k)

SpecKey == Init /\ [][NextKey]_vars

(***************************************************************************)
(* Specification of the translator: every input transaction, converted     *)
(***************************************************************************)
TxInputs ==
    {TransferTx(p, t) : p \in Payloads, t \in {"ONT", "ONG"}}
        \cup {PlainTx(p) : p \in Payloads}

InitConv ==
    /\ gDevice = Null
    /\ connected = {}
    /\ inv = [i \in Slots |-> IdleSlot]
    /\ keys = [k \in KeyIds |-> NoKey]
    /\ ret = NoRet
    /\ cin \in TxInputs
    /\ cout = NoConv

ConvertPayload ==
    /\ cout' = [kind |-> "payload", value |-> convertPayload(cin.payload)]
    /\ UNCHANGED <<gDevice, connected, inv, keys, ret, cin>>

ConvertToTrezorTransaction ==
    /\ cout' = [kind |-> "transaction",
                value |-> convertToTrezorTransaction(cin)]
    /\ UNCHANGED <<gDevice, connected, inv, keys, ret, cin>>

NextConv == ConvertPayload \/ ConvertToTrezorTransaction

SpecConv == InitConv /\ [][NextConv]_vars

(***************************************************************************)
(* Properties                                                              *)
(***************************************************************************)
Pending(rec) == rec.pc /= "idle"

\* the invocation ended in the device-wait timeout: getPublicKey and
\* computesSignature reject with TimeoutError, isTrezorSupported answers
\* false; no session was asked for and no typed call was made
TimedOut(rec) ==
    /\ rec.pc = "idle"
    /\ rec.out = (IF rec.op = "isTrezorSupported"
                  THEN Ok("false") ELSE Err(TimeoutError))
    /\ rec.device = Null
    /\ rec.sessions = 0
    /\ rec.calls = 0

\* the invocation got the device g from its wait and went on with it
ObtainedDevice(rec, g) ==
    IF rec.op = "isTrezorSupported"
    THEN rec.pc = "idle" /\ rec.out = Ok("true")
    ELSE rec.pc = "session" /\ rec.device = g /\ rec.sessions = 1
         /\ rec.calls = 0

\* C1 as claimed: a call made while the shared handle is unset never obtains
\* a device; it can only go on sleeping or end in the timeout, whatever
\* connects in the meantime.
C1_UnsetHandleNeverObtainsDevice ==
    [][\A i \in Slots :
          inv[i].pc = "sleeping" =>
              inv'[i].pc = "sleeping" \/ TimedOut(inv'[i])]_vars

\* C1 as amended: a call made while the shared handle is unset leaves its
\* sleep only when the two 5000 ms timers expire; it then either ends in the
\* timeout or, only if the handle is set at that moment, goes on with exactly
\* that handle.  With the handle still unset it always ends in the timeout.
\* The polling loop a timed-out call leaves behind never revives the call:
\* its outcome stays, and no session or typed call is started for it.
C1_LateDeviceOnlyAtExpiry ==
    [][\A i \in Slots :
          /\ (inv[i].pc = "sleeping" /\ inv'[i] /= inv[i]) =>
                /\ gDevice' = gDevice
                /\ IF gDevice = Null
                   THEN TimedOut(inv'[i])
                   ELSE TimedOut(inv'[i]) \/ ObtainedDevice(inv'[i], gDevice)
          /\ (inv[i].pc = "idle" /\ inv[i].loop) =>
                /\ inv'[i].pc = "idle"
                /\ inv'[i].out = inv[i].out
                /\ inv'[i].sessions = 0 /\ inv'[i].calls = 0]_vars

\* C1 witness: a getPublicKey call has timed out, its polling loop has since
\* seen the device that connected afterwards, and the call stays failed.
C1_Witness ==
    \E i \in Slots :
        /\ inv[i].op = "getPublicKey"
        /\ TimedOut(inv[i])
        /\ ~inv[i].loop
        /\ gDevice /= Null

\* C8: only notifications write the shared handle.  A step in which a device
\* connects sets it to that device, a step in which a device (any device)
\* disconnects sets it to null, every other step leaves it alone; before the
\* first notification it is null.
C8_HandleFollowsLastNotification ==
    /\ gDevice = Null
    /\ [][/\ \A d \in Dev :
               (d \in connected' /\ d \notin connected) => gDevice' = d
          /\ \A d \in Dev :
               (d \in connected /\ d \notin connected') => gDevice' = Null
          /\ connected' = connected => gDevice' = gDevice]_vars

\* C8 witness: the handle is null although a device is plugged in, because
\* another device's disconnect was the last notification, and an invocation
\* is in flight on the device that stayed.
C8_Witness ==
    /\ gDevice = Null
    /\ \E i \in Slots : Pending(inv[i]) /\ inv[i].device \in connected

\* C9: convertPayload yields type 2 with the seven fields copied exactly when
\* the payload's name is neither null nor undefined, and otherwise type 1
\* with the code only; the input transaction is left as it was.
PayloadTranslated(p, r) ==
    IF p.name /= Null /\ p.name /= Undefined
    THEN /\ DOMAIN r = {"type", "code", "needStorage", "name", "version",
                        "author", "email", "description"}
         /\ r.type = 2
         /\ r.code = p.code /\ r.needStorage = p.needStorage
         /\ r.name = p.name /\ r.version = p.version
         /\ r.author = p.author /\ r.email = p.email
         /\ r.description = p.description
    ELSE /\ DOMAIN r = {"type", "code"}
         /\ r.type = 1
         /\ r.code = p.code

C9_PayloadTranslation ==
    /\ cin \in TxInputs
    /\ cout.kind = "payload" => PayloadTranslated(cin.payload, cout.value)
    /\ cout.kind = "transaction" =>
          PayloadTranslated(cin.payload, cout.value.payload)

\* C9 witness: a deploy payload whose name is the empty string was converted
\* to type 2, inside a transfer transaction.
C9_Witness ==
    /\ cout.kind = "transaction"
    /\ cin.payload.name = ""
    /\ cout.value.payload.type = 2
    /\ cout.value.transferInfo.asset = 2

\* C5 as claimed: a computesSignature invocation whose signable lacks
\* version, type or payload ends with the unsupported-signable error and
\* with nothing else, whatever the device state was when it was called.
C5_UnsupportedSignableSurfaced ==
    [][\A i \in Slots :
          (/\ inv[i].op = "computesSignature"
           /\ Pending(inv[i])
           /\ ~isTransaction(Object(inv[i].signable))
           /\ ~Pending(inv'[i]))
          => inv'[i].out = Err(UnsupportedSignable)]_vars

\* the order of an invocation's steps: wait, session request, typed call, end
Rank(pc) ==
    CASE pc = "sleeping" -> 1
      [] pc = "session" -> 2
      [] pc = "typedCall" -> 3
      [] pc = "idle" -> 4

\* what a pending invocation has done so far
StepsOf(rec) ==
    CASE rec.pc = "sleeping" ->
            rec.waits = 1 /\ rec.sessions = 0 /\ rec.calls = 0
      [] rec.pc = "session" ->
            rec.waits = 1 /\ rec.sessions = 1 /\ rec.calls = 0
      [] rec.pc = "typedCall" ->
            rec.waits = 1 /\ rec.sessions = 1 /\ rec.calls = 1
      [] OTHER -> TRUE

\* C6: an invocation of getPublicKey or computesSignature waits for the
\* device once, asks for one session and dispatches at most one typed call;
\* it only moves forward (wait, session, typed call, end).  When its wait
\* times out it ends with TimeoutError, and when the transport rejects the
\* session or the typed call it ends with an error of the transport; once it
\* has ended with an error nothing is started for it again.
C6_NoRetries ==
    /\ [](\A i \in Slots :
            inv[i].op \in {"getPublicKey", "computesSignature"} =>
                StepsOf(inv[i]))
    /\ [][\A i \in Slots :
            (inv[i].op \in {"getPublicKey", "computesSignature"}
                 /\ Pending(inv[i]) /\ inv'[i] /= inv[i]) =>
               /\ inv'[i].op = inv[i].op
               /\ Rank(inv'[i].pc) > Rank(inv[i].pc)
               /\ (inv'[i].pc = "idle" /\ inv[i].pc = "sleeping") =>
                      inv'[i].out = Err(TimeoutError)
               /\ (inv'[i].pc = "idle" /\ inv[i].pc = "typedCall") =>
                      \/ inv'[i].out.kind = "ok"
                      \/ /\ inv'[i].out.kind = "error"
                         /\ inv'[i].out.value \in
                                TransportErrors \cup {DeviceDisconnected}]_vars

\* C6 witness: one invocation has ended with the transport's rejection of
\* its typed call or session, another with the timeout of its wait.
C6_Witness ==
    \E i, j \in Slots :
        /\ inv[i].op = "getPublicKey" /\ ~Pending(inv[i])
        /\ inv[i].out = Err("Failure")
        /\ inv[j].op = "computesSignature" /\ ~Pending(inv[j])
        /\ inv[j].out = Err(TimeoutError)

\* C7: every session is requested with onlyOneActivity, a typed call is
\* dispatched only from the callback of such a session, and so no two typed
\* calls are ever in flight on one device: a second invocation's callback
\* waits until the first one's typed call has ended.
C7_TypedCallsSerialized ==
    /\ [](\A i \in Slots :
            inv[i].pc \in {"session", "typedCall"} => inv[i].exclusive)
    /\ [](\A i, j \in Slots : \A d \in Dev :
            (Running(i, d) /\ Running(j, d)) => i = j)
    /\ [][\A i \in Slots :
            (inv'[i].pc = "typedCall" /\ inv[i].pc /= "typedCall") =>
               /\ inv[i].pc = "session"
               /\ inv[i].exclusive
               /\ inv'[i].device = inv[i].device
               /\ \A j \in Slots \ {i} : ~Running(j, inv[i].device)]_vars

\* C7 witness: a computesSignature typed call is in flight on a device while
\* a getPublicKey invocation holds a session request on the same device.
C7_Witness ==
    \E i, j \in Slots :
        /\ inv[i].op = "computesSignature" /\ inv[i].pc = "typedCall"
        /\ inv[j].op = "getPublicKey" /\ inv[j].pc = "session"
        /\ inv[j].device = inv[i].device

\* C10 as claimed: whenever a session is requested or a typed call is
\* dispatched, the handle used equals the shared handle at that moment.
C10_DispatchOnCurrentHandle ==
    [][\A i \in Slots :
          (inv'[i].pc \in {"session", "typedCall"}
               /\ inv'[i].pc /= inv[i].pc) =>
             inv'[i].device = gDevice']_vars

\* C10 as amended: a session is always requested on the handle the shared
\* handle holds at that moment (no notification comes between the read and
\* the request); the typed call inside the session is dispatched on that
\* same handle, whatever the shared handle has become by then.
C10_SessionOnHandleRead ==
    [][\A i \in Slots :
          /\ (inv'[i].pc = "session" /\ inv[i].pc /= "session") =>
                /\ gDevice /= Null
                /\ gDevice' = gDevice
                /\ inv'[i].device = gDevice
          /\ (inv'[i].pc = "typedCall" /\ inv[i].pc /= "typedCall") =>
                /\ inv[i].pc = "session"
                /\ inv'[i].device = inv[i].device]_vars

\* C10 witness: a typed call is in flight on a device that is still plugged
\* in while the shared handle holds another value.
C10_Witness ==
    \E i \in Slots :
        /\ inv[i].pc = "typedCall"
        /\ inv[i].device \in connected
        /\ inv[i].device /= gDevice

\* C2: sign throws for every input; signAsync throws the schema error when
\* the schema is given and is not ECDSAwithSHA256, whatever the message is,
\* and the raw-string error when the schema passes and the message is a
\* string.  None of the three starts a device wait, a session or a typed
\* call, and none changes an adapter's index or public key.
C2_UnsupportedRejectedBeforeDevice ==
    /\ [](ret.op = "sign" => ret.out = Err(SyncSigningError))
    /\ [](ret.op = "signAsync" =>
            IF ret.arg[2] \notin {Undefined, ECDSAwithSHA256}
            THEN ret.out = Err(SchemaError)
            ELSE IF ret.arg[1] = "string"
                 THEN ret.out = Err(RawStringError)
                 ELSE ret.out = Ok("promise"))
    /\ [][(/\ ret' /= ret
           /\ ret'.op \in {"sign", "signAsync"}
           /\ ret'.out.kind = "error")
          => UNCHANGED <<gDevice, connected, inv, keys>>]_vars

\* C2 witness: with a device connected, signAsync was called with a string
\* message and the SM2 schema and threw the schema error.
C2_Witness ==
    /\ gDevice /= Null
    /\ ret.op = "signAsync"
    /\ ret.arg[1] = "string"
    /\ ret.arg[2] = SM2withSM3
    /\ ret.out = Err(SchemaError)

\* the gateway invocations made on behalf of signAsync
SignAsyncSlots == {i \in Slots : inv[i].ctx.kind = "signAsync"}

\* C3: a signAsync call that passes its checks makes one computesSignature
\* invocation, with the adapter's index and the message it was given; when
\* the device answers, the promise resolves with a signature tagged
\* ECDSAwithSHA256 whose value is the device's string without its first two
\* characters, and with the publicKeyId of the call.
C3_SignAsyncWrapsSignature ==
    /\ []((ret.op = "signAsync" /\ ret.out = Ok("promise")) =>
             Cardinality(SignAsyncSlots) = 1)
    /\ [](\A i \in SignAsyncSlots :
            /\ inv[i].op = "computesSignature"
            /\ inv[i].ctx.index = keys[inv[i].ctx.key].index
            /\ StepsOf(inv[i])
            /\ Pending(inv[i]) =>
                  /\ inv[i].index = keys[inv[i].ctx.key].index
                  /\ inv[i].signable = ret.arg[3]
            /\ (~Pending(inv[i]) /\ inv[i].out.kind = "ok") =>
                  /\ inv[i].out.value.algorithm = ECDSAwithSHA256
                  /\ Len(inv[i].raw) >= 2
                  /\ inv[i].raw =
                        SubSeq(inv[i].raw, 1, 2) \o inv[i].out.value.value
                  /\ inv[i].out.value.publicKeyId = inv[i].ctx.publicKeyId)

\* C3 witness: the device answered 01ab to a signAsync call made with the
\* schema omitted and publicKeyId 1; the signature's value is ab.
C3_Witness ==
    \E i \in SignAsyncSlots :
        /\ ret.op = "signAsync" /\ ret.arg[2] = Undefined
        /\ ~Pending(inv[i])
        /\ inv[i].out.kind = "ok"
        /\ inv[i].raw = <<"0", "1", "a", "b">>
        /\ inv[i].out.value = Signature(ECDSAwithSHA256, <<"a", "b">>, "1")

\* C4: an adapter, once built, keeps its index and its public key through
\* every adapter operation; getPublicKey returns that key, and starts no
\* device wait, session or typed call.
C4_CachedPublicKeyImmutable ==
    /\ [][\A k \in KeyIds : keys[k] /= NoKey => keys'[k] = keys[k]]_vars
    /\ [](ret.op = "getPublicKey" =>
             ret.out = Ok(keys[ret.key].publicKey))
    /\ [][(ret' /= ret /\ ret'.op = "getPublicKey")
          => UNCHANGED <<gDevice, connected, inv, keys>>]_vars

\* C4 witness: an adapter built by create from device devB at index 1, asked
\* for its public key after the device has gone, returns the key it cached.
C4_Witness ==
    /\ gDevice = Null
    /\ connected = {}
    /\ ret.op = "getPublicKey"
    /\ keys[ret.key].index = 1
    /\ ret.out = Ok(PublicKey(compress(DevicePublicKey("devB", 1)),
                              "ECDSA", "P-256"))

====
